---- MODULE Spec2Model ----
(***************************************************************************)
(* Model of wqio.algo.ros: the construction of an MR object (regression on *)
(* order statistics for left-censored data).  MR.__init__ runs its stages  *)
(* in sequence: validation, normalisation and rosSort; cohn; the DLIndex   *)
(* column; _ros_ranks; estimator.  One action per stage.                   *)
(*                                                                         *)
(* Numbers.  numpy float64 values are modelled as exact fractions <<n, d>> *)
(* with d >= 0: d > 0 is a finite value in lowest terms, <<1, 0>> is +inf  *)
(* and <<0, 0>> is NaN.  np.log and np.exp are transcendental: their       *)
(* results are kept as linear forms over the logarithms of primes          *)
(* (r + sum_p l[p]*ln p) and as records [fn |-> "exp", arg |-> form].      *)
(*                                                                         *)
(* wqio.core.hydro: HydroRecord._define_storms, one action per column it   *)
(* adds, and HydroRecord.getStormFromTimestamp (SpecHydro).  The record    *)
(* has one row per hour (outputfreqMinutes = 60), so intereventPeriods     *)
(* equals intereventHours and a time stamp is a row position.              *)
(***************************************************************************)
EXTENDS Integers, Sequences, FiniteSets, TLC

\* ---------------------------------------------------------------- bounds
\* longest input table whose rows are drawn freely
MaxRows == 4
\* largest result value of a freely drawn row
MaxVal == 2
\* longest input table whose cells may be invalid
MaxRawRows == 2
\* largest number of censored rows in a block table (see BlockTables)
MaxBlock == 9
\* largest number of detected rows in a block table
MaxBlockDetects == 2
\* longest hydrologic record
MaxRecords == 6
\* largest intereventPeriods
MaxPeriods == 3
\* largest lookback_hours
MaxLookback == 2

\* ---------------------------------------------------------------- float64
NaN == <<0, 0>>
Inf == <<1, 0>>

Abs(n) == IF n < 0 THEN -n ELSE n

Sign(n) == IF n < 0 THEN -1 ELSE IF n > 0 THEN 1 ELSE 0

RECURSIVE GCD(_, _)
GCD(a, b) == IF b = 0 THEN a ELSE GCD(b, a % b)

\* the fraction n/d in lowest terms with a non-negative denominator
Norm(n, d) ==
    IF d = 0 THEN <<Sign(n), 0>>
    ELSE LET g == GCD(Abs(n), Abs(d))
         IN  <<(Sign(d) * n) \div g, Abs(d) \div g>>

\* np.float64(v) of an integer v
Float(v) == <<v, 1>>

IsNaN(a) == a = NaN

RAdd(a, b) == Norm(a[1] * b[2] + b[1] * a[2], a[2] * b[2])

RSub(a, b) == Norm(a[1] * b[2] - b[1] * a[2], a[2] * b[2])

RMul(a, b) == Norm(a[1] * b[1], a[2] * b[2])

RDiv(a, b) == Norm(a[1] * b[2], a[2] * b[1])

\* comparisons with NaN are False, as in IEEE 754
RLt(a, b) == ~IsNaN(a) /\ ~IsNaN(b) /\ a[1] * b[2] < b[1] * a[2]

RLe(a, b) == ~IsNaN(a) /\ ~IsNaN(b) /\ (a = b \/ a[1] * b[2] < b[1] * a[2])

RGe(a, b) == RLe(b, a)

RECURSIVE RSum(_)
RSum(s) == IF s = <<>> THEN Float(0) ELSE RAdd(Head(s), RSum(Tail(s)))

\* Series.mean(): NaN for an empty selection
RMean(s) == IF s = <<>> THEN NaN ELSE RDiv(RSum(s), Float(Len(s)))

\* ---------------------------------------------------------------- sequences
\* a computed column stored as a sequence of values
Column(f) == f \o <<>>

\* pandas.unique: the distinct elements in order of first appearance
RECURSIVE Unique(_)
Unique(s) ==
    IF s = <<>> THEN <<>>
    ELSE LET u == Unique(SubSeq(s, 1, Len(s) - 1))
             x == s[Len(s)]
         IN  IF \E i \in DOMAIN u : u[i] = x THEN u ELSE Append(u, x)

\* Series.min() of a non-empty sequence of finite floats
RECURSIVE RMin(_)
RMin(s) ==
    IF Len(s) = 1 THEN s[1]
    ELSE LET m == RMin(Tail(s)) IN IF RLt(Head(s), m) THEN Head(s) ELSE m

\* ---------------------------------------------------------------- inputs
\* qualifier symbols a caller's table may hold
Quals == {"ND", "<", "="}

\* a valid cell of the result column: a positive number
Cells == {<<"num", v>> : v \in 1..MaxVal}

\* any cell: also a number <= 0, or a string that is not numeric
RawCells == Cells \cup {<<"num", 0>>, <<"num", -1>>, <<"str", 0>>}

\* a qualifier that is not the non-detect symbol nd
DetectQual(nd) == IF nd = "=" THEN "ND" ELSE "="

\* the tables of up to MaxRows rows with valid cells; each row's qualifier
\* is the non-detect symbol or a detect qualifier
ValidTables(nd) ==
    UNION {[1..n -> [res : Cells, qual : {nd, DetectQual(nd)}]] : n \in 1..MaxRows}

\* the short tables with any cells
RawTables(nd) ==
    UNION {[1..n -> [res : RawCells, qual : {nd, DetectQual(nd)}]] : n \in 1..MaxRawRows}

\* a block of c censored rows at the limit 2 followed by d detected rows
\* with the values 1, 2, ..: reaches the row counts of the 0.8 threshold
BlockTable(nd, c, d) ==
    [i \in 1..(c + d) |->
        IF i <= c THEN [res |-> <<"num", 2>>, qual |-> nd]
        ELSE [res |-> <<"num", i - c>>, qual |-> DetectQual(nd)]]

BlockTables(nd) ==
    {BlockTable(nd, c, d) : c \in (MaxRows + 1)..MaxBlock, d \in 0..MaxBlockDetects}

\* the row labels of a table of n rows: unique, or the last repeating the first
Indexes(n) ==
    {[i \in 1..n |-> i]} \cup
    (IF n > 1 THEN {[i \in 1..n |-> IF i = n THEN 1 ELSE i]} ELSE {})

\* ---------------------------------------------------------------- state
VARIABLES
    input,         \* the caller's DataFrame: its rows [index, res, qual]
    ndsymbol,      \* constructor argument ndsymbol
    pc,            \* how far MR.__init__ has run
    err,           \* the ValueError raised, or "none"
    N_tot,         \* self.N_tot
    N_nd,          \* self.N_nd
    fitlogs,       \* self.fitlogs
    data,          \* self.data: rows [index, res, qual] in its row order
    DLs,           \* self.DLs: rows [DL, lower, upper, A, B, C, PE]
    DLIndex,       \* column self.data['DLIndex'] (<<>> while absent)
    NormRanks,     \* column self.data['Norm Ranks']
    AvgRanks,      \* column self.data['Avg Ranks']
    plot_pos,      \* column self.data['plot_pos']
    Zprelim,       \* column self.data['Zprelim']
    modeled_data,  \* column self.data['modeled_data']
    final_data,    \* column self.data['final_data']
    fit,           \* self.fit: [slope, intercept], or <<>> when never set
    policy         \* the branch estimator() took

vars == <<input, ndsymbol, pc, err, N_tot, N_nd, fitlogs, data, DLs, DLIndex,
          NormRanks, AvgRanks, plot_pos, Zprelim, modeled_data, final_data,
          fit, policy>>

\* ---------------------------------------------------------------- HydroRecord
VARIABLES
    _raw_data,          \* self._raw_data: rows [precip, inflow, outflow]
    intereventPeriods,  \* self.intereventPeriods
    hpc,                \* how far _define_storms has run
    wet,                \* column 'wet'
    windiff,            \* column 'windiff'
    event_start,        \* column 'event_start'
    event_end,          \* column 'event_end'
    storm,              \* column self.stormcol
    found               \* what getStormFromTimestamp returned or raised

hvars == <<_raw_data, intereventPeriods, hpc, wet, windiff, event_start,
           event_end, storm, found>>

\* no HydroRecord exists
HydroIdle ==
    /\ _raw_data = <<>>
    /\ intereventPeriods = 0
    /\ hpc = "idle"
    /\ wet = <<>>
    /\ windiff = <<>>
    /\ event_start = <<>>
    /\ event_end = <<>>
    /\ storm = <<>>
    /\ found = <<>>

Init ==
    /\ HydroIdle
    /\ ndsymbol \in Quals
    /\ \E t \in ValidTables(ndsymbol) \cup RawTables(ndsymbol) \cup BlockTables(ndsymbol) :
         \E ix \in Indexes(Len(t)) :
           input = [i \in 1..Len(t) |->
                      [index |-> ix[i], res |-> t[i].res, qual |-> t[i].qual]]
    /\ pc = "start"
    /\ err = "none"
    /\ N_tot = 0
    /\ N_nd = 0
    /\ fitlogs = FALSE
    /\ data = <<>>
    /\ DLs = <<>>
    /\ DLIndex = <<>>
    /\ NormRanks = <<>>
    /\ AvgRanks = <<>>
    /\ plot_pos = <<>>
    /\ Zprelim = <<>>
    /\ modeled_data = <<>>
    /\ final_data = <<>>
    /\ fit = <<>>
    /\ policy = "none"

\* ---------------------------------------------------------------- rosSort
\* DataFrame.sort(columns='res'): ascending by res; rows of equal res keep
\* their order (numpy's argsort is an insertion sort on tables this short)
RECURSIVE SortByRes(_)
SortByRes(s) ==
    IF Len(s) <= 1 THEN s
    ELSE LET front == SortByRes(SubSeq(s, 1, Len(s) - 1))
             x == s[Len(s)]
             k == Cardinality({i \in DOMAIN front : RLe(front[i].res, x.res)})
         IN  SubSeq(front, 1, k) \o <<x>> \o SubSeq(front, k + 1, Len(front))

rosSort(dataframe, nd) ==
    LET IsND(r) == r.qual = nd
        NotND(r) == r.qual # nd
        nondetects == SortByRes(SelectSeq(dataframe, IsND))
        detects == SortByRes(SelectSeq(dataframe, NotND))
    IN  nondetects \o detects

\* ---------------------------------------------------------------- __init__
\* data.index.is_unique
IndexIsUnique(df) == \A i, j \in DOMAIN df : df[i].index = df[j].index => i = j

\* the check with < for <=
MinNegative(df) == \E i \in DOMAIN df : df[i].res[1] = "num" /\ df[i].res[2] < 0

\* data[rescol].min() <= 0.  Python 2 orders every number before every
\* string, so the minimum is the least number when the column holds one and
\* a string (never <= 0) otherwise.
MinNotPositive(df) == \E i \in DOMAIN df : df[i].res[1] = "num" /\ df[i].res[2] <= 0

\* np.float64(newdata.res) raises ValueError on a string that is no number
UniformlyNumeric(df) == \A i \in DOMAIN df : df[i].res[1] = "num"

\* lines 143-156: the renamed table with res as float64 and qual standardised
Normalised(df, nd) ==
    [i \in DOMAIN df |->
        [index |-> df[i].index,
         res |-> Float(df[i].res[2]),
         qual |-> IF df[i].qual = nd THEN "ND" ELSE "="]]

\* the table with its qualifiers standardised in the caller's own object
CallerTableInPlace(df, nd) ==
    [i \in DOMAIN df |-> [df[i] EXCEPT !.qual = IF df[i].qual = nd THEN "ND" ELSE "="]]

\* the caller's table after lines 143-156: data.rename() returns a new
\* table, and the assignments to res and qual write to that copy
CallerTable(df, nd) == df

Fail(e) ==
    /\ pc' = "failed"
    /\ err' = e
    /\ UNCHANGED <<input, N_tot, N_nd, fitlogs, data>>

\* MR.__init__ up to the end of the sort stage (lines 132-168)
Validate ==
    /\ pc = "start"
    /\ \E fl \in BOOLEAN :
         IF ~IndexIsUnique(input) THEN Fail("index")
         ELSE IF MinNotPositive(input) THEN Fail("positive")
         ELSE IF ~UniformlyNumeric(input) THEN Fail("numeric")
         ELSE /\ N_tot' = Len(input)
              /\ N_nd' = Len(SelectSeq(input, LAMBDA r : r.qual = ndsymbol))
              /\ data' = rosSort(Normalised(input, ndsymbol), ndsymbol)
              /\ input' = CallerTable(input, ndsymbol)
              /\ fitlogs' = fl
              /\ pc' = "sorted"
              /\ err' = "none"
    /\ UNCHANGED <<ndsymbol, DLs, DLIndex, NormRanks, AvgRanks, plot_pos,
                   Zprelim, modeled_data, final_data, fit, policy>>
    /\ UNCHANGED hvars

\* ---------------------------------------------------------------- cohn
\* the rows of df with qual 'ND' / not 'ND' (the boolean masks of ros.py)
NDRows(df) == SelectSeq(df, LAMBDA r : r.qual = "ND")

ResOf(df) == [i \in DOMAIN df |-> df[i].res]

\* _A with > for >= at the lower limit
_AOpenLower(df, row) ==
    Len(SelectSeq(df, LAMBDA r : /\ ~RLe(r.res, row.lower)
                                 /\ RLt(r.res, row.upper)
                                 /\ r.qual # "ND"))

\* detected results in [lower, upper)
_A(df, row) ==
    Len(SelectSeq(df, LAMBDA r : /\ RGe(r.res, row.lower)
                                 /\ RLt(r.res, row.upper)
                                 /\ r.qual # "ND"))

\* _B without the non-detects at or below the limit
_BDetectsOnly(df, row) ==
    Len(SelectSeq(df, LAMBDA r : RLt(r.res, row.lower) /\ r.qual # "ND"))

\* non-detects <= lower plus detects < lower
_B(df, row) ==
    LET LTE_nondets == Len(SelectSeq(df, LAMBDA r : /\ RLe(r.res, row.lower)
                                                    /\ r.qual = "ND"))
        LT_detects == Len(SelectSeq(df, LAMBDA r : /\ RLt(r.res, row.lower)
                                                   /\ r.qual # "ND"))
    IN  LTE_nondets + LT_detects

\* _C with <= for ==
_CAtMost(df, row) == Len(SelectSeq(NDRows(df), LAMBDA r : RLe(r.res, row.lower)))

\* non-detects equal to lower
_C(df, row) == Len(SelectSeq(NDRows(df), LAMBDA r : r.res = row.lower))

\* the row reindex() adds: every column missing
ExtraRow ==
    [DL |-> NaN, lower |-> NaN, upper |-> NaN, A |-> NaN, B |-> NaN, C |-> NaN,
     PE |-> Float(0)]

\* cohn with <= for < in the test that prepends the minimum
cohnPrependLE(df) ==
    LET unique == Unique(ResOf(NDRows(df)))
    IN  IF Len(unique) > 0
        THEN LET dl == IF RLe(RMin(ResOf(df)), RMin(unique))
                       THEN <<RMin(ResOf(df))>> \o unique
                       ELSE unique
                 n == Len(dl)
                 bounds(i) == [lower |-> dl[i],
                               upper |-> IF n > 1 /\ i < n THEN dl[i + 1] ELSE Inf]
                 rows == [i \in 1..n |->
                            [DL |-> dl[i],
                             lower |-> bounds(i).lower,
                             upper |-> bounds(i).upper,
                             A |-> Float(_A(df, bounds(i))),
                             B |-> Float(_B(df, bounds(i))),
                             C |-> Float(_C(df, bounds(i))),
                             PE |-> Float(0)]]
             IN  Append(rows, ExtraRow)
        ELSE <<>>

\* cohn building the table, with its added row, also from no limit at all
cohnAlwaysExtraRow(df) ==
    LET unique == Unique(ResOf(NDRows(df)))
    IN  IF Len(unique) > 0
        THEN LET dl == IF RLt(RMin(ResOf(df)), RMin(unique))
                       THEN <<RMin(ResOf(df))>> \o unique
                       ELSE unique
                 n == Len(dl)
                 bounds(i) == [lower |-> dl[i],
                               upper |-> IF n > 1 /\ i < n THEN dl[i + 1] ELSE Inf]
                 rows == [i \in 1..n |->
                            [DL |-> dl[i],
                             lower |-> bounds(i).lower,
                             upper |-> bounds(i).upper,
                             A |-> Float(_A(df, bounds(i))),
                             B |-> Float(_B(df, bounds(i))),
                             C |-> Float(_C(df, bounds(i))),
                             PE |-> Float(0)]]
             IN  Append(rows, ExtraRow)
        ELSE <<ExtraRow>>

cohn(df) ==
    LET unique == Unique(ResOf(NDRows(df)))
    IN  IF Len(unique) > 0
        THEN LET dl == IF RLt(RMin(ResOf(df)), RMin(unique))
                       THEN <<RMin(ResOf(df))>> \o unique
                       ELSE unique
                 n == Len(dl)
                 bounds(i) == [lower |-> dl[i],
                               upper |-> IF n > 1 /\ i < n THEN dl[i + 1] ELSE Inf]
                 rows == [i \in 1..n |->
                            [DL |-> dl[i],
                             lower |-> bounds(i).lower,
                             upper |-> bounds(i).upper,
                             A |-> Float(_A(df, bounds(i))),
                             B |-> Float(_B(df, bounds(i))),
                             C |-> Float(_C(df, bounds(i))),
                             PE |-> Float(0)]]
             IN  Append(rows, ExtraRow)
        ELSE <<>>

\* line 172
Cohn ==
    /\ pc = "sorted"
    /\ DLs' = cohn(data)
    /\ pc' = "cohn"
    /\ UNCHANGED <<input, ndsymbol, err, N_tot, N_nd, fitlogs, data, DLIndex,
                   NormRanks, AvgRanks, plot_pos, Zprelim, modeled_data,
                   final_data, fit, policy>>
    /\ UNCHANGED hvars

\* ---------------------------------------------------------------- DLIndex
\* DataFrame.iloc[k]: positions count from 0
iloc(df, k) == df[k + 1]

\* the positions with < for <=
WhereLT(dls, row) == {k \in 0..(Len(dls) - 1) : RLt(iloc(dls, k).DL, row.res)}

\* np.where(self.DLs['DL'] <= row['res']): the positions, ascending
WhereLE(dls, row) == {k \in 0..(Len(dls) - 1) : RLe(iloc(dls, k).DL, row.res)}

SetMax(S) == CHOOSE m \in S : \A k \in S : k <= m

\* index[-1] of an empty array raises IndexError: modelled as -1
_ros_DL_index(dls, row) ==
    IF Len(dls) > 0
    THEN IF WhereLE(dls, row) = {} THEN -1 ELSE SetMax(WhereLE(dls, row))
    ELSE 0

\* line 175
AssignDLIndex ==
    /\ pc = "cohn"
    /\ LET col == [i \in DOMAIN data |-> _ros_DL_index(DLs, data[i])]
       IN  IF \E i \in DOMAIN col : col[i] < 0
           THEN /\ pc' = "failed"
                /\ err' = "IndexError"
                /\ UNCHANGED DLIndex
           ELSE /\ DLIndex' = col
                /\ pc' = "indexed"
                /\ UNCHANGED err
    /\ UNCHANGED <<input, ndsymbol, N_tot, N_nd, fitlogs, data, DLs, NormRanks,
                   AvgRanks, plot_pos, Zprelim, modeled_data, final_data, fit,
                   policy>>
    /\ UNCHANGED hvars

\* ---------------------------------------------------------------- _ros_ranks
\* the loop without the test on qual
NormRanksIgnoreQual(df, dlindex) ==
    LET rank[n \in DOMAIN df] ==
            IF \/ n = 1
               \/ dlindex[n] # dlindex[n - 1]
            THEN 1
            ELSE rank[n - 1] + 1
    IN  Column([n \in DOMAIN df |-> Float(rank[n])])

\* the loop of lines 303-309 over the rows in their order
NormRanksOf(df, dlindex) ==
    LET rank[n \in DOMAIN df] ==
            IF \/ n = 1
               \/ dlindex[n] # dlindex[n - 1]
               \/ df[n].qual # df[n - 1].qual
            THEN 1
            ELSE rank[n - 1] + 1
    IN  Column([n \in DOMAIN df |-> Float(rank[n])])

\* avgrank without the test that the other rows are detects
avgrankAnyQual(df, dlindex, ranks, n) ==
    IF df[n].qual # "ND"
    THEN LET index == {m \in DOMAIN df : /\ dlindex[m] = dlindex[n]
                                         /\ df[m].res = df[n].res}
             picked == SelectSeq([m \in DOMAIN df |-> <<m, ranks[m]>>],
                                 LAMBDA e : e[1] \in index)
         IN  RMean([k \in DOMAIN picked |-> picked[k][2]])
    ELSE ranks[n]

\* avgrank(r) for the row at position n
avgrank(df, dlindex, ranks, n) ==
    IF df[n].qual # "ND"
    THEN LET index == {m \in DOMAIN df : /\ dlindex[m] = dlindex[n]
                                         /\ df[m].res = df[n].res
                                         /\ df[m].qual # "ND"}
             picked == SelectSeq([m \in DOMAIN df |-> <<m, ranks[m]>>],
                                 LAMBDA e : e[1] \in index)
         IN  RMean([k \in DOMAIN picked |-> picked[k][2]])
    ELSE ranks[n]

\* line 178
RosRanks ==
    /\ pc = "indexed"
    /\ NormRanks' = NormRanksOf(data, DLIndex)
    /\ AvgRanks' = [n \in DOMAIN data |->
                      avgrank(data, DLIndex, NormRanksOf(data, DLIndex), n)]
    /\ pc' = "ranked"
    /\ UNCHANGED <<input, ndsymbol, err, N_tot, N_nd, fitlogs, data, DLs, DLIndex,
                   plot_pos, Zprelim, modeled_data, final_data, fit, policy>>
    /\ UNCHANGED hvars

\* ---------------------------------------------------------------- np.log, np.exp
\* the largest result value an input table holds
ValueBound == IF MaxVal > MaxBlockDetects THEN MaxVal ELSE MaxBlockDetects

Primes == {p \in 2..(ValueBound + 1) : \A q \in 2..(p - 1) : p % q # 0}

\* the multiplicity of the prime p in v >= 1
RECURSIVE PrimeExp(_, _)
PrimeExp(v, p) == IF v % p = 0 THEN 1 + PrimeExp(v \div p, p) ELSE 0

\* a real number r + sum over the primes p of l[p] * ln(p)
LinOfRat(q) == [r |-> q, l |-> [p \in Primes |-> Float(0)]]

LinAdd(x, y) == [r |-> RAdd(x.r, y.r), l |-> [p \in Primes |-> RAdd(x.l[p], y.l[p])]]

LinSub(x, y) == [r |-> RSub(x.r, y.r), l |-> [p \in Primes |-> RSub(x.l[p], y.l[p])]]

LinScale(q, x) == [r |-> RMul(q, x.r), l |-> [p \in Primes |-> RMul(q, x.l[p])]]

RECURSIVE LinSum(_)
LinSum(s) == IF s = <<>> THEN LinOfRat(Float(0)) ELSE LinAdd(Head(s), LinSum(Tail(s)))

LinMean(s) == LinScale(RDiv(Float(1), Float(Len(s))), LinSum(s))

\* np.log of a float holding a positive integer
Log(v) == [r |-> Float(0), l |-> [p \in Primes |-> Float(PrimeExp(v[1], p))]]

\* a cell of a float column: a plain number, or np.exp of a number
Val(q) == [fn |-> "id", arg |-> LinOfRat(q)]

Exp(x) == [fn |-> "exp", arg |-> x]

\* ---------------------------------------------------------------- estimator
\* the literals of lines 356 and 369
Half == <<1, 2>>

MaxCensoredFraction == <<4, 5>>

\* the branch with >= 0.8 for > 0.8
PolicyAtLeast(ntot, nnd) ==
    IF nnd = 0 THEN "passthrough"
    ELSE IF ntot - nnd < 2 \/ RLe(MaxCensoredFraction, RDiv(Float(nnd), Float(ntot)))
         THEN "half"
         ELSE "ros"

\* the three-way branch of lines 365-373
Policy(ntot, nnd) ==
    IF nnd = 0 THEN "passthrough"
    ELSE IF ntot - nnd < 2 \/ RLt(MaxCensoredFraction, RDiv(Float(nnd), Float(ntot)))
         THEN "half"
         ELSE "ros"

\* the helper halving the detects instead of the non-detects
HalveDetects(row) == IF row.qual # "ND" THEN RMul(Half, row.res) ELSE row.res

_select_half_DLs(row) == IF row.qual = "ND" THEN RMul(Half, row.res) ELSE row.res

\* the res column of the caller's table, in the caller's row order
PassThroughUnsorted(df) == [n \in DOMAIN df |-> Val(Float(input[n].res[2]))]

\* line 366: the final_data column is the res column
PassThrough(df) == [n \in DOMAIN df |-> Val(df[n].res)]

\* the recursion without the factor (1 - PE[j+1])
ComputePEUnscaled(dls) ==
    LET n == Len(dls)
        pe[k \in 1..n] ==
            IF k = n THEN dls[n].PE
            ELSE RAdd(pe[k + 1], RDiv(dls[k].A, RAdd(dls[k].A, dls[k].B)))
    IN  Column([k \in 1..n |-> [dls[k] EXCEPT !.PE = pe[k]]])

\* the recursion reading the initial PE of the next row, as a loop that
\* runs from the first row to the last would
ComputePEForward(dls) ==
    LET n == Len(dls)
        pe[k \in 1..n] ==
            IF k = n THEN dls[n].PE
            ELSE RAdd(dls[k + 1].PE,
                      RMul(RDiv(dls[k].A, RAdd(dls[k].A, dls[k].B)),
                           RSub(Float(1), dls[k + 1].PE)))
    IN  Column([k \in 1..n |-> [dls[k] EXCEPT !.PE = pe[k]]])

\* the recursion with B / (A + B) for A / (A + B)
ComputePESwapped(dls) ==
    LET n == Len(dls)
        pe[k \in 1..n] ==
            IF k = n THEN dls[n].PE
            ELSE RAdd(pe[k + 1],
                      RMul(RDiv(dls[k].B, RAdd(dls[k].A, dls[k].B)),
                           RSub(Float(1), pe[k + 1])))
    IN  Column([k \in 1..n |-> [dls[k] EXCEPT !.PE = pe[k]]])

\* the loop of lines 375-379: PE from the last real row down to the first
ComputePE(dls) ==
    LET n == Len(dls)
        pe[k \in 1..n] ==
            IF k = n THEN dls[n].PE
            ELSE RAdd(pe[k + 1],
                      RMul(RDiv(dls[k].A, RAdd(dls[k].A, dls[k].B)),
                           RSub(Float(1), pe[k + 1])))
    IN  Column([k \in 1..n |-> [dls[k] EXCEPT !.PE = pe[k]]])

\* the plotting position with denominators C and A for C + 1 and A + 1
PlottingPosNoPlusOne(dls, df, dlindex, ranks, n) ==
    LET dl_1 == iloc(dls, dlindex[n])
        dl_2 == iloc(dls, dlindex[n] + 1)
    IN  IF df[n].qual = "ND"
        THEN RDiv(RMul(RSub(Float(1), dl_1.PE), ranks[n]), dl_1.C)
        ELSE RAdd(RSub(Float(1), dl_1.PE),
                  RDiv(RMul(RSub(dl_1.PE, dl_2.PE), ranks[n]), dl_1.A))

\* the row at position n; it reads the 'Norm Ranks' column for both kinds
_ros_plotting_pos(dls, df, dlindex, ranks, n) ==
    LET dl_1 == iloc(dls, dlindex[n])
        dl_2 == iloc(dls, dlindex[n] + 1)
    IN  IF df[n].qual = "ND"
        THEN RDiv(RMul(RSub(Float(1), dl_1.PE), ranks[n]), RAdd(dl_1.C, Float(1)))
        ELSE RAdd(RSub(Float(1), dl_1.PE),
                  RDiv(RMul(RSub(dl_1.PE, dl_2.PE), ranks[n]), RAdd(dl_1.A, Float(1))))

\* self.dist.ppf for dist = scipy.stats.uniform: q on [0, 1], NaN elsewhere
ppf(q) == IF RLe(Float(0), q) /\ RLe(q, Float(1)) THEN q ELSE NaN

\* scipy.stats.linregress(x, y)[:2] as called on lines 399-400
linregress(x, y) ==
    LET n == Len(x)
        xmean == RMean(x)
        ymean == LinMean(y)
        ssxm == RMean(Column([i \in 1..n |->
                                RMul(RSub(x[i], xmean), RSub(x[i], xmean))]))
        ssxym == LinMean(Column([i \in 1..n |->
                                   LinScale(RSub(x[i], xmean), LinSub(y[i], ymean))]))
        slope == LinScale(RDiv(Float(1), ssxm), ssxym)
        intercept == LinSub(ymean, LinScale(xmean, slope))
    IN  [slope |-> slope, intercept |-> intercept]

\* the positions of the detected / censored rows, ascending
DetectPos(df) == SelectSeq([n \in DOMAIN df |-> n], LAMBDA n : df[n].qual # "ND")

NonDetPos(df) == SelectSeq([n \in DOMAIN df |-> n], LAMBDA n : df[n].qual = "ND")

\* lines 395-398
detect_vals(df, fl) ==
    Column([k \in DOMAIN DetectPos(df) |->
              IF fl THEN Log(df[DetectPos(df)[k]].res)
              ELSE LinOfRat(df[DetectPos(df)[k]].res)])

\* lines 409-411: a Series over the censored rows, labelled by their index
ModeledSeries(df, z, f) ==
    Column([k \in DOMAIN NonDetPos(df) |->
              [index |-> df[NonDetPos(df)[k]].index,
               value |-> Exp(LinAdd(LinScale(z[NonDetPos(df)[k]], f.slope),
                                    f.intercept))]])

\* assigning a Series to a column aligns it on the row labels; a label the
\* Series lacks is left NaN
AssignColumn(df, series) ==
    Column([n \in DOMAIN df |->
              IF \E k \in DOMAIN series : series[k].index = df[n].index
              THEN series[CHOOSE k \in DOMAIN series :
                            series[k].index = df[n].index].value
              ELSE Val(NaN)])

_select_final_data(row, modeled) == IF row.qual = "ND" THEN modeled ELSE Val(row.res)

\* the columns the regression branch (lines 374-417) derives from the fit
ros_columns(df, dls, pp, z, f) ==
    LET modeled == AssignColumn(df, ModeledSeries(df, z, f))
    IN  [DLs |-> dls, plot_pos |-> pp, Zprelim |-> z, fit |-> f,
         modeled_data |-> modeled,
         final_data |-> Column([n \in DOMAIN df |->
                                  _select_final_data(df[n], modeled[n])])]

\* lines 392-403: the quantile scores and the line through the detects
ros_fit(df, dls, pp, z, fl) ==
    ros_columns(df, dls, pp, z,
                linregress(Column([k \in DOMAIN DetectPos(df) |-> z[DetectPos(df)[k]]]),
                           detect_vals(df, fl)))

\* lines 381-392: the plotting positions and their quantile scores
ros_scores(df, dls, pp, fl) ==
    ros_fit(df, dls, pp, Column([n \in DOMAIN df |-> ppf(pp[n])]), fl)

ros_positions(df, dls, dlindex, ranks, fl) ==
    ros_scores(df, dls,
               Column([n \in DOMAIN df |-> _ros_plotting_pos(dls, df, dlindex, ranks, n)]),
               fl)

\* MR.estimator: what it leaves in self.DLs, self.fit and the new columns
estimator(df, dls, dlindex, ranks, ntot, nnd, fl) ==
    IF Policy(ntot, nnd) = "passthrough"
    THEN [DLs |-> dls, plot_pos |-> <<>>, Zprelim |-> <<>>, fit |-> <<>>,
          modeled_data |-> <<>>, final_data |-> PassThrough(df)]
    ELSE IF Policy(ntot, nnd) = "half"
    THEN [DLs |-> dls, plot_pos |-> <<>>, Zprelim |-> <<>>, fit |-> <<>>,
          modeled_data |-> <<>>,
          final_data |-> [n \in DOMAIN df |-> Val(_select_half_DLs(df[n]))]]
    ELSE ros_positions(df, ComputePE(dls), dlindex, ranks, fl)

\* lines 181-187: estimator(), then debug and the column selection
Estimator ==
    /\ pc = "ranked"
    /\ policy' = Policy(N_tot, N_nd)
    /\ \E r \in {estimator(data, DLs, DLIndex, NormRanks, N_tot, N_nd, fitlogs)} :
         /\ DLs' = r.DLs
         /\ plot_pos' = r.plot_pos
         /\ Zprelim' = r.Zprelim
         /\ fit' = r.fit
         /\ modeled_data' = r.modeled_data
         /\ final_data' = r.final_data
    /\ pc' = "done"
    /\ UNCHANGED <<input, ndsymbol, err, N_tot, N_nd, fitlogs, data, DLIndex,
                   NormRanks, AvgRanks>>
    /\ UNCHANGED hvars

\* a later MR(...) on the same table: a new object, none of whose attributes
\* exists before its __init__ assigns it
NewRun ==
    /\ pc \in {"done", "failed"}
    /\ pc' = "start"
    /\ err' = "none"
    /\ N_tot' = 0
    /\ N_nd' = 0
    /\ fitlogs' = FALSE
    /\ data' = <<>>
    /\ DLs' = <<>>
    /\ DLIndex' = <<>>
    /\ NormRanks' = <<>>
    /\ AvgRanks' = <<>>
    /\ plot_pos' = <<>>
    /\ Zprelim' = <<>>
    /\ modeled_data' = <<>>
    /\ final_data' = <<>>
    /\ fit' = <<>>
    /\ policy' = "none"
    /\ UNCHANGED <<input, ndsymbol>>
    /\ UNCHANGED hvars

Next == Validate \/ Cohn \/ AssignDLIndex \/ RosRanks \/ Estimator \/ NewRun

Spec == Init /\ [][Next]_vars


\* ---------------------------------------------------------------- hydro.py
\* no MR object exists
RosIdle ==
    /\ input = <<>>
    /\ ndsymbol = "ND"
    /\ pc = "idle"
    /\ err = "none"
    /\ N_tot = 0
    /\ N_nd = 0
    /\ fitlogs = FALSE
    /\ data = <<>>
    /\ DLs = <<>>
    /\ DLIndex = <<>>
    /\ NormRanks = <<>>
    /\ AvgRanks = <<>>
    /\ plot_pos = <<>>
    /\ Zprelim = <<>>
    /\ modeled_data = <<>>
    /\ final_data = <<>>
    /\ fit = <<>>
    /\ policy = "none"

\* the hourly rows a record may hold: dry, rain, outflow; a reading may be
\* missing (NaN)
HydroRows ==
    {[precip |-> Float(0), inflow |-> NaN, outflow |-> Float(0)],
     [precip |-> Float(1), inflow |-> Float(0), outflow |-> Float(0)],
     [precip |-> NaN, inflow |-> Float(0), outflow |-> Float(1)]}

HydroInit ==
    /\ RosIdle
    /\ _raw_data \in UNION {[1..n -> HydroRows] : n \in 1..MaxRecords}
    /\ intereventPeriods \in 1..MaxPeriods
    /\ hpc = "new"
    /\ wet = <<>>
    /\ windiff = <<>>
    /\ event_start = <<>>
    /\ event_end = <<>>
    /\ storm = <<>>
    /\ found = <<>>

\* bool -> float64, as rolling_apply and shift convert a bool column
AsFloat(s) == Column([t \in DOMAIN s |-> IF s[t] THEN Float(1) ELSE Float(0)])

\* np.any(data[water_columns] > 0, axis=1): NaN > 0 is False
IsWet(row) ==
    \/ RLt(Float(0), row.precip)
    \/ RLt(Float(0), row.inflow)
    \/ RLt(Float(0), row.outflow)

\* pandas.rolling_apply(s, window, lambda x: x.any(), min_periods=1)
rolling_any(s, window) ==
    Column([t \in DOMAIN s |->
              IF \E j \in (t - window + 1)..t : j >= 1 /\ s[j] # Float(0)
              THEN Float(1) ELSE Float(0)])

\* Series.diff(): NaN on the first row
diff(s) == Column([t \in DOMAIN s |-> IF t = 1 THEN NaN ELSE RSub(s[t], s[t - 1])])

\* Series.shift(k): row t takes the value of row t - k, NaN where there is none
shift(s, k) == Column([t \in DOMAIN s |-> IF t - k \in DOMAIN s THEN s[t - k] ELSE NaN])

\* Series.cumsum(): a NaN row stays NaN and is skipped by the running sum
cumsum(s) ==
    LET run[t \in DOMAIN s] ==
            RAdd(IF t = 1 THEN Float(0) ELSE run[t - 1],
                 IF IsNaN(s[t]) THEN Float(0) ELSE s[t])
    IN  Column([t \in DOMAIN s |-> IF IsNaN(s[t]) THEN NaN ELSE run[t]])

HydroStep(from, to) ==
    /\ hpc = from
    /\ hpc' = to
    /\ UNCHANGED <<_raw_data, intereventPeriods, found>>
    /\ UNCHANGED vars

\* lines 729-731
DefineWet ==
    /\ HydroStep("new", "wet")
    /\ wet' = Column([t \in DOMAIN _raw_data |-> IsWet(_raw_data[t])])
    /\ UNCHANGED <<windiff, event_start, event_end, storm>>

\* the window difference without the correction of a wet first row
WindowDiffNoFirstRow(w, window) == diff(rolling_any(AsFloat(w), window))

\* the window difference with the first row's set to 1 when it is wet
WindowDiff(w, window) ==
    [diff(rolling_any(AsFloat(w), window)) EXCEPT ![1] = IF w[1] THEN Float(1) ELSE @]

\* lines 733-742
RollingDiff ==
    /\ HydroStep("wet", "windiff")
    /\ windiff' = WindowDiff(wet, intereventPeriods)
    /\ UNCHANGED <<wet, event_start, event_end, storm>>

\* lines 744-752
MarkEvents ==
    /\ HydroStep("windiff", "events")
    /\ event_start' = Column([t \in DOMAIN windiff |-> windiff[t] = Float(1)])
    /\ event_end' = Column([t \in DOMAIN windiff |->
                              shift(windiff, -1 * intereventPeriods)[t] = Float(-1)])
    /\ UNCHANGED <<wet, windiff, storm>>

\* lines 755-758: the running count of storm starts
NumberStorms ==
    /\ HydroStep("events", "numbered")
    /\ storm' = Column([t \in DOMAIN event_start |-> cumsum(AsFloat(event_start))[t][1]])
    /\ UNCHANGED <<wet, windiff, event_start, event_end>>

\* nostorm of line 764: as many storms ended two rows back as have started
nostorm(col, ends) ==
    Column([t \in DOMAIN col |-> Float(col[t]) = cumsum(shift(AsFloat(ends), 2))[t]])

\* lines 760-765
ClearNoStorm ==
    /\ HydroStep("numbered", "defined")
    /\ storm' = Column([t \in DOMAIN storm |->
                          IF nostorm(storm, event_end)[t] THEN 0 ELSE storm[t]])
    /\ UNCHANGED <<wet, windiff, event_start, event_end>>

\* Python's None where a number is expected
None == -1

\* minprecip, mininflow, minoutflow of HydroRecord.__init__ at their default
MinTotal == Float(0)

\* the rows of storm n
StormRows(n) == SelectSeq([t \in DOMAIN storm |-> t], LAMBDA t : storm[t] = n)

\* Storm.total_*: None (here NaN) unless a reading of the storm is > 0, else
\* the sum of the readings, missing ones skipped
Total(n, col) ==
    IF \E k \in DOMAIN StormRows(n) : RLt(Float(0), _raw_data[StormRows(n)[k]][col])
    THEN RSum(SelectSeq([k \in DOMAIN StormRows(n) |-> _raw_data[StormRows(n)[k]][col]],
                        LAMBDA x : ~IsNaN(x)))
    ELSE NaN

\* Storm.is_small
is_small(n) == \E col \in {"precip", "inflow", "outflow"} : RLt(Total(n, col), MinTotal)

\* the keys of HydroRecord.all_storms and of HydroRecord.storms
all_storms == {storm[t] : t \in DOMAIN storm} \ {0}

storms == {n \in all_storms : ~is_small(n)}

\* dict.get(storm_number, None): a Storm is named by its number
Get(dict, storm_number) == IF storm_number \in dict THEN storm_number ELSE None

\* lines 808-818: the last storm number > 0 of the rows in
\* [timestamp - lookback_hours, timestamp], or None
LookBack(timestamp, lookback_hours) ==
    LET rows == {t \in DOMAIN storm : /\ timestamp - lookback_hours <= t
                                      /\ t <= timestamp
                                      /\ storm[t] > 0}
    IN  IF rows = {} THEN None ELSE storm[SetMax(rows)]

\* lines 804-818: the storm number of the last row at or before timestamp,
\* then the look-back
Search(timestamp, lookback_hours) ==
    IF storm[timestamp] = 0 /\ lookback_hours # 0
    THEN LookBack(timestamp, lookback_hours)
    ELSE storm[timestamp]

Returned(storm_number, smallstorms) ==
    [raised |-> "none", storm_number |-> storm_number,
     storm |-> Get(IF smallstorms THEN all_storms ELSE storms, storm_number)]

Raised(e) == [raised |-> e, storm_number |-> None, storm |-> None]

\* the check of lines 800-802
NegativeLookback(lookback_hours) == lookback_hours < 0

\* HydroRecord.getStormFromTimestamp; the time stamp 0 lies before the record
getStormFromTimestamp(timestamp, lookback_hours, smallstorms) ==
    IF NegativeLookback(lookback_hours) THEN Raised("ValueError")
    ELSE IF timestamp < 1 THEN Raised("IndexError")
    ELSE Returned(Search(timestamp, lookback_hours), smallstorms)

GetStorm ==
    /\ hpc = "defined"
    /\ hpc' = "asked"
    /\ \E timestamp \in 0..Len(storm), lookback_hours \in -1..MaxLookback,
          smallstorms \in BOOLEAN :
         found' = [timestamp |-> timestamp, lookback_hours |-> lookback_hours,
                   smallstorms |-> smallstorms,
                   result |-> getStormFromTimestamp(timestamp, lookback_hours,
                                                    smallstorms)]
    /\ UNCHANGED <<_raw_data, intereventPeriods, wet, windiff, event_start,
                   event_end, storm>>
    /\ UNCHANGED vars

HydroNext ==
    DefineWet \/ RollingDiff \/ MarkEvents \/ NumberStorms \/ ClearNoStorm \/ GetStorm

SpecHydro == HydroInit /\ [][HydroNext]_hvars

\* ================================================================ claims
\* what the claims read off the caller's table
Censored(i) == input[i].qual = ndsymbol

NumCensored == Cardinality({i \in DOMAIN input : Censored(i)})

NumDetected == Len(input) - NumCensored

\* the position in self.data of the input row i (labels are unique there)
RowOf(i) == CHOOSE n \in DOMAIN data : data[n].index = input[i].index

\* a plain float cell holding the fraction n/d
Plain(n, d) == [fn |-> "id", arg |-> [r |-> <<n, d>>, l |-> [p \in Primes |-> <<0, 1>>]]]

Finite(x) == x.r[2] > 0 /\ \A p \in Primes : x.l[p][2] > 0

OnRegressionPath ==
    /\ pc = "done"
    /\ NumCensored > 0
    /\ NumDetected >= 2
    /\ 5 * NumCensored <= 4 * Len(input)

OnFallbackPath ==
    /\ pc = "done"
    /\ NumCensored > 0
    /\ (NumDetected < 2 \/ 5 * NumCensored > 4 * Len(input))

\* C1: with no censored row, final_data equals the input value on every row
\* and the detection-limit table has no rows.
C1_PassThroughExact ==
    (pc = "done" /\ NumCensored = 0) =>
        /\ Len(DLs) = 0
        /\ Len(final_data) = Len(input)
        /\ \A i \in DOMAIN input :
             final_data[RowOf(i)] = Plain(input[i].res[2], 1)

C1_Witness ==
    /\ pc = "done"
    /\ NumCensored = 0
    /\ Len(input) >= 3
    /\ \E i, j \in DOMAIN input : i < j /\ input[i].res[2] > input[j].res[2]

\* C2: on the fallback path every censored row's final value is exactly half
\* its reported value and every detected row's final value is its reported
\* value.
C2_FallbackHalves ==
    OnFallbackPath =>
        /\ Len(final_data) = Len(input)
        /\ \A i \in DOMAIN input :
             LET v == final_data[RowOf(i)]
             IN  IF Censored(i)
                 THEN /\ v.fn = "id"
                      /\ Finite(v.arg)
                      /\ 2 * v.arg.r[1] = input[i].res[2] * v.arg.r[2]
                      /\ \A p \in Primes : v.arg.l[p][1] = 0
                 ELSE v = Plain(input[i].res[2], 1)

\* one detected and nine censored rows
C2_Witness == OnFallbackPath /\ NumDetected = 1 /\ NumCensored = 9

\* C3: the policy is chosen once, from (N_tot, N_nd) alone: pass-through iff
\* no row is censored, else fallback iff fewer than 2 detects or a censored
\* fraction above 0.8, else regression.
ExpectedPolicy ==
    IF NumCensored = 0 THEN "passthrough"
    ELSE IF NumDetected < 2 \/ 5 * NumCensored > 4 * Len(input) THEN "half"
    ELSE "ros"

C3_PolicySelection ==
    /\ pc # "done" => policy = "none"
    /\ pc = "done" =>
         /\ policy = ExpectedPolicy
         /\ N_tot = Len(input) /\ N_nd = NumCensored
         /\ (plot_pos # <<>>) = (ExpectedPolicy = "ros")
         /\ (ExpectedPolicy = "half") =
              (\E i \in DOMAIN input : final_data[RowOf(i)] # Plain(input[i].res[2], 1)
                                       /\ final_data[RowOf(i)].fn = "id")

\* a censored fraction of exactly 0.8 with two detects: regression
C3_Witness ==
    /\ pc = "done"
    /\ NumCensored = 8
    /\ NumDetected = 2
    /\ policy = "ros"

\* C4: on the regression path a detected row's final value is its observed
\* value, a censored row's is the estimate the fitted line gives at that
\* row's quantile score, and no censored row is left without a value.
EstimateAt(n) == Exp(LinAdd(LinScale(Zprelim[n], fit.slope), fit.intercept))

C4_FinalSelection ==
    OnRegressionPath =>
        /\ Len(final_data) = Len(input)
        /\ \A i \in DOMAIN input :
             IF Censored(i)
             THEN /\ final_data[RowOf(i)] = EstimateAt(RowOf(i))
                  /\ Finite(final_data[RowOf(i)].arg)
             ELSE final_data[RowOf(i)] = Plain(input[i].res[2], 1)

\* the same with the canonical symbol only
C4_FinalSelectionND == ndsymbol = "ND" => C4_FinalSelection

\* C5: after the sort stage all censored rows come first, ascending, then
\* all detected rows, ascending, whatever the non-detect symbol is.
C5_CanonicalOrder ==
    pc \notin {"start", "failed"} =>
        \A m, n \in DOMAIN data :
            m < n =>
                /\ data[m].qual = "=" => data[n].qual = "="
                /\ data[m].qual = data[n].qual => RLe(data[m].res, data[n].res)

\* C6: a table with a repeated row label, a value <= 0 or a value that is no
\* number makes the construction fail before any later stage runs, and
\* leaves no data or DLs.
InvalidInput ==
    \/ \E i, j \in DOMAIN input : i # j /\ input[i].index = input[j].index
    \/ \E i \in DOMAIN input : input[i].res[1] = "num" /\ input[i].res[2] <= 0
    \/ \E i \in DOMAIN input : input[i].res[1] # "num"

C7_IdentityInverse ==
    (OnRegressionPath /\ ~fitlogs) =>
        \A n \in DOMAIN data :
            data[n].qual = "ND" =>
                modeled_data[n] =
                    [fn |-> "id",
                     arg |-> LinAdd(LinScale(Zprelim[n], fit.slope), fit.intercept)]

\* C8: on the regression path every plotting position is strictly between
\* 0 and 1.
C8_PlottingPosInside ==
    OnRegressionPath =>
        /\ Len(plot_pos) = Len(input)
        /\ \A n \in DOMAIN plot_pos :
             /\ plot_pos[n][2] > 0
             /\ 0 < plot_pos[n][1]
             /\ plot_pos[n][1] < plot_pos[n][2]

\* a run whose table starts with a detected minimum below the lowest limit
C8_Witness ==
    /\ OnRegressionPath
    /\ Len(DLs) >= 3
    /\ DLs[1].C = <<0, 1>>

\* C9 as stated: after the recursion every entry has 0 <= PE < 1 and the
\* extra entry has PE = 0.
C9_Original ==
    (pc = "done" /\ Len(DLs) > 0) =>
        /\ DLs[Len(DLs)].PE = <<0, 1>>
        /\ \A k \in DOMAIN DLs :
             /\ DLs[k].PE[2] > 0
             /\ 0 <= DLs[k].PE[1]
             /\ DLs[k].PE[1] < DLs[k].PE[2]

\* the first entry is the detected minimum, below every censored value
FirstIsDetectedMinimum ==
    \A i \in DOMAIN input : Censored(i) => DLs[1].DL[1] < input[i].res[2] * DLs[1].DL[2]

\* C9 amended: every PE lies in [0, 1], the extra entry has PE = 0, and PE is
\* 1 exactly at the entry of a detected minimum after the recursion has run.
C9_PEBounds ==
    (pc = "done" /\ Len(DLs) > 0) =>
        /\ DLs[Len(DLs)].PE = <<0, 1>>
        /\ \A k \in DOMAIN DLs :
             /\ DLs[k].PE[2] > 0
             /\ 0 <= DLs[k].PE[1]
             /\ DLs[k].PE[1] <= DLs[k].PE[2]
             /\ (DLs[k].PE = <<1, 1>>) =
                  (k = 1 /\ FirstIsDetectedMinimum /\ OnRegressionPath)

C9_Witness ==
    /\ OnRegressionPath
    /\ Len(DLs) >= 3
    /\ FirstIsDetectedMinimum
    /\ DLs[1].PE = <<1, 1>>
    /\ DLs[2].PE[1] > 0

\* C10: detected rows sharing (DLIndex, value) have the same averaged rank,
\* the mean of the raw ranks of the detected rows of that group; censored
\* rows keep their raw rank.
TieGroup(n) ==
    {m \in DOMAIN data : /\ data[m].qual = "="
                         /\ DLIndex[m] = DLIndex[n]
                         /\ data[m].res = data[n].res}

RECURSIVE RankTotal(_)
RankTotal(S) ==
    IF S = {} THEN 0
    ELSE LET m == CHOOSE x \in S : TRUE
         IN  NormRanks[m][1] + RankTotal(S \ {m})

C10_TieAveraging ==
    AvgRanks # <<>> =>
        /\ Len(AvgRanks) = Len(data)
        /\ \A n \in DOMAIN data :
             IF data[n].qual = "ND"
             THEN AvgRanks[n] = NormRanks[n]
             ELSE /\ AvgRanks[n][2] > 0
                  /\ AvgRanks[n][1] * Cardinality(TieGroup(n))
                       = RankTotal(TieGroup(n)) * AvgRanks[n][2]
                  /\ \A m \in TieGroup(n) : AvgRanks[m] = AvgRanks[n]

C10_Witness ==
    /\ AvgRanks # <<>>
    /\ \E m, n \in DOMAIN data :
         /\ m # n
         /\ m \in TieGroup(n)
         /\ data[n].qual = "="
         /\ NormRanks[m] # NormRanks[n]
         /\ AvgRanks[n] = <<3, 2>>

\* row m comes before row n in the canonical order: censored rows first,
\* each kind ascending by value, equal rows in their order in self.data
CanonBefore(m, n) ==
    \/ data[m].qual = "ND" /\ data[n].qual = "="
    \/ /\ data[m].qual = data[n].qual
       /\ \/ RLt(data[m].res, data[n].res)
          \/ data[m].res = data[n].res /\ m < n

\* C11: on the regression path the plotting position does not decrease
\* along the canonical order among rows sharing a DLIndex.
C11_Monotone ==
    OnRegressionPath =>
        \A m, n \in DOMAIN data :
            (CanonBefore(m, n) /\ DLIndex[m] = DLIndex[n]) =>
                plot_pos[m][1] * plot_pos[n][2] <= plot_pos[n][1] * plot_pos[m][2]

\* the same with the canonical symbol only
C11_MonotoneND == ndsymbol = "ND" => C11_Monotone

\* ---------------------------------------------------------------- a second run
\* MR.__init__ on a valid table, stage by stage: self.data and its final_data
run_estimate(df, dls, dlindex, ntot, nnd, fl) ==
    [data |-> df,
     final_data |-> estimator(df, dls, dlindex, NormRanksOf(df, dlindex),
                              ntot, nnd, fl).final_data]

run_index(df, dls, ntot, nnd, fl) ==
    run_estimate(df, dls, Column([i \in DOMAIN df |-> _ros_DL_index(dls, df[i])]),
                 ntot, nnd, fl)

run_cohn(df, ntot, nnd, fl) == run_index(df, cohn(df), ntot, nnd, fl)

MR(inp, nd, fl) ==
    run_cohn(rosSort(Normalised(inp, nd), nd), Len(inp),
             Len(SelectSeq(inp, LAMBDA r : r.qual = nd)), fl)

\* MR.__init__ as one step, from the caller's table to self.data with its
\* final_data column; the columns of the stages in between are not kept
Construct ==
    /\ pc = "start"
    /\ \E fl \in BOOLEAN :
         IF ~IndexIsUnique(input) THEN Fail("index") /\ UNCHANGED final_data
         ELSE IF MinNotPositive(input) THEN Fail("positive") /\ UNCHANGED final_data
         ELSE IF ~UniformlyNumeric(input) THEN Fail("numeric") /\ UNCHANGED final_data
         ELSE \E run \in {MR(input, ndsymbol, fl)} :
                /\ N_tot' = Len(input)
                /\ N_nd' = Len(SelectSeq(input, LAMBDA r : r.qual = ndsymbol))
                /\ data' = run.data
                /\ final_data' = run.final_data
                /\ input' = CallerTable(input, ndsymbol)
                /\ fitlogs' = fl
                /\ pc' = "done"
                /\ err' = "none"
    /\ UNCHANGED <<ndsymbol, DLs, DLIndex, NormRanks, AvgRanks, plot_pos, Zprelim,
                   modeled_data, fit, policy>>
    /\ UNCHANGED hvars

RerunNext == Construct \/ NewRun

\* runs and re-runs of MR.__init__ taken whole, for the claims that compare
\* a run with a second run of MR on a permuted table
SpecRerun == Init /\ [][RerunNext]_vars

\* the caller's table with the rows at positions i and j exchanged
Exchanged(i, j) ==
    [k \in DOMAIN input |-> IF k = i THEN input[j] ELSE IF k = j THEN input[i]
                            ELSE input[k]]

\* rows i < j of the caller's table are exact duplicates within a partition,
\* with no duplicate of them in between: exchanges of such neighbours make
\* up every permutation of the duplicates
Duplicates(i, j) ==
    /\ i < j
    /\ input[i].res = input[j].res
    /\ input[i].qual = input[j].qual
    /\ \A m \in (i + 1)..(j - 1) :
          input[m].res # input[i].res \/ input[m].qual # input[i].qual

\* the final value a run attaches to the observation identifier k
FinalOf(run, k) ==
    run.final_data[CHOOSE p \in DOMAIN run.data : run.data[p].index = k]

ThisRun == [data |-> data, final_data |-> final_data]

\* C12 as stated: exchanging two input rows of equal value and status leaves
\* the final value of every observation identifier unchanged.
C12_PermutationInvariant ==
    pc = "done" =>
        \A i, j \in DOMAIN input :
            Duplicates(i, j) =>
                \A run \in {MR(Exchanged(i, j), ndsymbol, fitlogs)} :
                    \A k \in DOMAIN input :
                        FinalOf(run, input[k].index) = FinalOf(ThisRun, input[k].index)

\* the same with the canonical symbol only
C12_PermutationInvariantND == ndsymbol = "ND" => C12_PermutationInvariant

\* C12, amended: exchanging two input rows of equal value and status leaves
\* the final_data column unchanged row by row, and leaves the final value of
\* an identifier unchanged unless its row is censored and estimated by the
\* regression.
C12_PermutationAmended ==
    pc = "done" =>
        \A i, j \in DOMAIN input :
            Duplicates(i, j) =>
                \A run \in {MR(Exchanged(i, j), ndsymbol, fitlogs)} :
                    /\ run.final_data = final_data
                    /\ \A k \in DOMAIN input :
                         (~OnRegressionPath \/ input[k].qual # ndsymbol) =>
                            FinalOf(run, input[k].index) = FinalOf(ThisRun, input[k].index)

\* a regression run with two censored duplicates whose estimates differ
C12_Witness ==
    /\ OnRegressionPath
    /\ ndsymbol = "ND"
    /\ \E i, j \in DOMAIN input :
         /\ Duplicates(i, j)
         /\ input[i].qual = ndsymbol
         /\ FinalOf(ThisRun, input[i].index) # FinalOf(ThisRun, input[j].index)

CohnRan == pc \in {"cohn", "indexed", "ranked", "done"} \/ err = "IndexError"

\* the number of real entries of self.DLs: all but the row reindex() added
NumReal == Len(DLs) - 1

ValueOf(i) == Float(input[i].res[2])

CensoredValues == {ValueOf(i) : i \in {k \in DOMAIN input : Censored(k)}}

\* the least value of a non-empty set of finite floats
Least(S) == CHOOSE x \in S : \A y \in S : RLe(x, y)

MinObserved == Least({ValueOf(i) : i \in DOMAIN input})

\* C14: with a censored row, the real entries of the detection-limit table
\* are the distinct censored values, plus the least observed value exactly
\* when it is below every censored value; they ascend strictly, lower is the
\* limit, upper is the next entry's lower and +infinity at the last real entry.
C14_TableEntries ==
    (CohnRan /\ NumCensored > 0) =>
        /\ NumReal >= 1
        /\ {DLs[k].DL : k \in 1..NumReal} =
              CensoredValues \cup
              (IF RLt(MinObserved, Least(CensoredValues)) THEN {MinObserved} ELSE {})
        /\ \A k \in 1..(NumReal - 1) : RLt(DLs[k].DL, DLs[k + 1].DL)
        /\ \A k \in 1..NumReal : DLs[k].lower = DLs[k].DL
        /\ \A k \in 1..(NumReal - 1) : DLs[k].upper = DLs[k + 1].lower
        /\ DLs[NumReal].upper = Inf

\* a table with the least observed value prepended to a censored value
C14_Witness ==
    /\ CohnRan
    /\ NumCensored > 0
    /\ NumReal = 2
    /\ DLs[1].DL \notin CensoredValues
    /\ DLs[1].upper = DLs[2].lower

\* C15: for every real entry, over all observations, A counts the detected
\* rows with lower <= value < upper, B the rows with value < lower plus the
\* censored rows with value = lower, and C the censored rows with value = lower.
C15_Counts ==
    (CohnRan /\ NumCensored > 0) =>
        \A k \in 1..NumReal :
            /\ DLs[k].A = Float(Cardinality({i \in DOMAIN input :
                                   /\ ~Censored(i)
                                   /\ RLe(DLs[k].lower, ValueOf(i))
                                   /\ RLt(ValueOf(i), DLs[k].upper)}))
            /\ DLs[k].B = Float(Cardinality({i \in DOMAIN input :
                                                RLt(ValueOf(i), DLs[k].lower)})
                                + Cardinality({i \in DOMAIN input :
                                                 Censored(i) /\ ValueOf(i) = DLs[k].lower}))
            /\ DLs[k].C = Float(Cardinality({i \in DOMAIN input :
                                                Censored(i) /\ ValueOf(i) = DLs[k].lower}))

\* an entry with a detected row at its lower limit, a censored row at the
\* limit and a row below it
C15_Witness ==
    /\ CohnRan
    /\ NumCensored > 0
    /\ \E k \in 1..NumReal :
         /\ \E i \in DOMAIN input : ~Censored(i) /\ ValueOf(i) = DLs[k].lower
         /\ RLt(Float(0), DLs[k].C)
         /\ RLt(DLs[k].C, DLs[k].B)
         /\ RLt(Float(0), DLs[k].A)

\* the DLIndex column has been assigned
Indexed == pc \in {"indexed", "ranked", "done"}

\* C16: building the DLIndex column never fails, and with a non-empty table
\* every row's DLIndex names a real entry whose lower is <= the row's value
\* and is the greatest such lower; DLIndex + 1 is a position of the table.
C16_GoverningEntry ==
    /\ err # "IndexError"
    /\ (Indexed /\ Len(DLs) > 0) =>
          \A n \in DOMAIN data :
              /\ DLIndex[n] \in 0..(NumReal - 1)
              /\ DLIndex[n] + 1 \in 0..(Len(DLs) - 1)
              /\ RLe(iloc(DLs, DLIndex[n]).lower, data[n].res)
              /\ \A k \in 0..(NumReal - 1) :
                    RLe(iloc(DLs, k).lower, data[n].res) =>
                        RLe(iloc(DLs, k).lower, iloc(DLs, DLIndex[n]).lower)

\* a table of two real entries: a row governed by the first, a row at the
\* lower limit of the last, whose next entry is the added row
C16_Witness ==
    /\ Indexed
    /\ NumReal = 2
    /\ \E n \in DOMAIN data : DLIndex[n] = 0
    /\ \E n \in DOMAIN data :
         /\ DLIndex[n] = 1
         /\ data[n].res = iloc(DLs, 1).lower
         /\ DLIndex[n] + 1 = Len(DLs) - 1

\* the ranks have been assigned
Ranked == pc \in {"ranked", "done"}

\* rows m..n of self.data share one DLIndex and one status
SameRun(m, n) ==
    \A j \in m..n : DLIndex[j] = DLIndex[n] /\ data[j].qual = data[n].qual

C18_PERecursion ==
    OnRegressionPath =>
        /\ DLs[Len(DLs)].PE = Float(0)
        /\ \A k \in 1..NumReal :
              /\ DLs[k].PE[2] > 0
              /\ DLs[k].A[1] + DLs[k].B[1] > 0
              /\ DLs[k].PE[1] * (DLs[k].A[1] + DLs[k].B[1]) * DLs[k + 1].PE[2]
                   = DLs[k].PE[2] *
                       (DLs[k + 1].PE[1] * (DLs[k].A[1] + DLs[k].B[1])
                        + DLs[k].A[1] * (DLs[k + 1].PE[2] - DLs[k + 1].PE[1]))

\* two real entries with 0 < PE[2] < PE[1] < 1
C18_Witness ==
    /\ OnRegressionPath
    /\ NumReal >= 2
    /\ RLt(Float(0), DLs[2].PE)
    /\ RLt(DLs[2].PE, DLs[1].PE)
    /\ RLt(DLs[1].PE, Float(1))

\* C19: on the regression path, with i the row's DLIndex, a censored row's
\* plotting position is (1 - PE[i]) * rank / (C[i] + 1) with its raw rank and
\* a detected row's is (1 - PE[i]) + (PE[i] - PE[i+1]) * rank / (A[i] + 1)
\* with its tie-averaged rank, so detected rows sharing (DLIndex, value)
\* receive the same plotting position.
C19_PlottingPositions ==
    OnRegressionPath =>
        /\ \A n \in DOMAIN data :
              plot_pos[n] =
                 IF data[n].qual = "ND"
                 THEN RDiv(RMul(RSub(Float(1), iloc(DLs, DLIndex[n]).PE), NormRanks[n]),
                           RAdd(iloc(DLs, DLIndex[n]).C, Float(1)))
                 ELSE RAdd(RSub(Float(1), iloc(DLs, DLIndex[n]).PE),
                           RDiv(RMul(RSub(iloc(DLs, DLIndex[n]).PE,
                                          iloc(DLs, DLIndex[n] + 1).PE),
                                     AvgRanks[n]),
                                RAdd(iloc(DLs, DLIndex[n]).A, Float(1))))
        /\ \A m, n \in DOMAIN data :
              (/\ data[m].qual = "=" /\ data[n].qual = "="
               /\ DLIndex[m] = DLIndex[n]
               /\ data[m].res = data[n].res) => plot_pos[m] = plot_pos[n]

\* the same with the canonical symbol only: fails there too
C19_PlottingPositionsND == ndsymbol = "ND" => C19_PlottingPositions

\* the censored half of C19 alone
C19_CensoredPositions ==
    OnRegressionPath =>
        \A n \in DOMAIN data :
            data[n].qual = "ND" =>
                plot_pos[n] =
                    RDiv(RMul(RSub(Float(1), iloc(DLs, DLIndex[n]).PE), NormRanks[n]),
                         RAdd(iloc(DLs, DLIndex[n]).C, Float(1)))

\* C20 as stated: with no censored row neither ranks nor PE, plotting
\* positions or quantile scores are ever produced.
C20_ShortCircuit ==
    NumCensored = 0 =>
        /\ DLs = <<>>
        /\ NormRanks = <<>>
        /\ AvgRanks = <<>>
        /\ plot_pos = <<>>
        /\ Zprelim = <<>>

\* the rows of self.data holding the value of row n
Ties(n) == {m \in DOMAIN data : data[m].res = data[n].res}

\* C20, amended: with no censored row the detection-limit table is empty and
\* no PE, plotting position, quantile score, fit or modelled value is
\* produced, and final_data is the res column; DLIndex is 0 on every row and
\* the rank stage still runs: the raw ranks are 1, 2, .. down the table and
\* Avg Ranks is their mean over the rows of equal value.
C20_NoCensoredAmended ==
    NumCensored = 0 =>
        /\ CohnRan => DLs = <<>>
        /\ Indexed => \A n \in DOMAIN data : DLIndex[n] = 0
        /\ Ranked =>
              \A n \in DOMAIN data :
                  /\ NormRanks[n] = Float(n)
                  /\ AvgRanks[n] = RDiv(Float(RankTotal(Ties(n))),
                                        Float(Cardinality(Ties(n))))
        /\ plot_pos = <<>>
        /\ Zprelim = <<>>
        /\ modeled_data = <<>>
        /\ fit = <<>>
        /\ pc = "done" =>
              /\ policy = "passthrough"
              /\ \A n \in DOMAIN data : final_data[n] = Val(data[n].res)

\* a finished run without censored rows whose ranks were computed and
\* averaged over a tie
C20_Witness ==
    /\ pc = "done"
    /\ NumCensored = 0
    /\ Len(data) >= 3
    /\ \E n \in DOMAIN data : AvgRanks[n] # NormRanks[n]
    /\ \E n \in DOMAIN data : AvgRanks[n] = NormRanks[n]

\* ---------------------------------------------------------------- claims on hydro.py
\* _define_storms has just returned
StormsDefined == hpc = "defined"

\* row t of the record shows rain or flow
WetRow(t) == IsWet(_raw_data[t])

\* at least intereventPeriods consecutive dry rows lie between rows a and b
DryRunBetween(a, b) ==
    \E s \in (a + 1)..(b - intereventPeriods) :
        \A j \in s..(s + intereventPeriods - 1) : ~WetRow(j)

\* C21: every wet row has a storm number > 0; two wet rows share it exactly
\* when no run of intereventPeriods dry rows lies between them; the first
\* wet row opens storm 1 and the first wet row after such a run opens the
\* next number.
C21_StormNumbers ==
    StormsDefined =>
        /\ \A t \in DOMAIN storm : WetRow(t) => storm[t] > 0
        /\ \A a, b \in DOMAIN storm :
              (a < b /\ WetRow(a) /\ WetRow(b)) =>
                  (storm[a] = storm[b] <=> ~DryRunBetween(a, b))
        /\ \A b \in DOMAIN storm :
              WetRow(b) =>
                  IF \E a \in 1..(b - 1) : WetRow(a)
                  THEN \A a \in 1..(b - 1) :
                          (WetRow(a) /\ \A j \in (a + 1)..(b - 1) : ~WetRow(j)) =>
                              storm[b] = storm[a] + (IF DryRunBetween(a, b) THEN 1 ELSE 0)
                  ELSE storm[b] = 1

\* a record that starts wet, with intereventPeriods >= 2: a storm that spans
\* a shorter dry spell, and a second storm after a dry run of exactly
\* intereventPeriods rows
C21_Witness ==
    /\ StormsDefined
    /\ intereventPeriods >= 2
    /\ WetRow(1)
    /\ \E a, b \in DOMAIN storm :
         /\ b > a + 1 /\ WetRow(a) /\ WetRow(b) /\ storm[a] = storm[b]
         /\ \A j \in (a + 1)..(b - 1) : ~WetRow(j)
    /\ \E a, b \in DOMAIN storm :
         /\ b = a + intereventPeriods + 1 /\ WetRow(a) /\ WetRow(b)
         /\ storm[b] = storm[a] + 1

\* C22: a call of getStormFromTimestamp with negative lookback_hours does
\* not fail: it returns what the call without look-back returns.
C22_NegativeLookbackIgnored ==
    (hpc = "asked" /\ found.lookback_hours < 0 /\ found.timestamp >= 1) =>
        /\ found.result.raised = "none"
        /\ found.result = getStormFromTimestamp(found.timestamp, 0, found.smallstorms)

\* ---------------------------------------------------------------- claims on the table
\* C23: with a censored row, every real entry has A + B >= 1: an entry that
\* is a censored value has B >= C >= 1 and the prepended minimum has A >= 1.
C23_DenominatorPositive ==
    (CohnRan /\ NumCensored > 0) =>
        \A k \in 1..NumReal :
            /\ DLs[k].A[1] + DLs[k].B[1] >= 1
            /\ DLs[k].A[2] = 1 /\ DLs[k].B[2] = 1
            /\ DLs[k].DL \in CensoredValues =>
                  (DLs[k].B[1] >= DLs[k].C[1] /\ DLs[k].C[1] >= 1)
            /\ DLs[k].DL \notin CensoredValues => DLs[k].A[1] >= 1

\* a prepended minimum with B = 0 and a censored limit with A = 0
C23_Witness ==
    /\ CohnRan
    /\ NumCensored > 0
    /\ NumReal >= 2
    /\ DLs[1].DL \notin CensoredValues /\ DLs[1].B = Float(0)
    /\ DLs[2].DL \in CensoredValues /\ DLs[2].A = Float(0)

RECURSIVE SumOver(_, _)
\* the sum of the counts in column col of the first n entries
SumOver(col, n) == IF n = 0 THEN 0 ELSE DLs[n][col][1] + SumOver(col, n - 1)

\* C24: in a non-empty table the A of the real entries add up to the number
\* of detected rows, the C to the number of censored rows, and
\* B[k+1] = B[k] + A[k] + C[k+1] for consecutive real entries.
C24_Partition ==
    (CohnRan /\ Len(DLs) > 0) =>
        /\ SumOver("A", NumReal) = NumDetected
        /\ SumOver("C", NumReal) = NumCensored
        /\ NumCensored = N_nd
        /\ \A k \in 1..(NumReal - 1) :
              DLs[k + 1].B[1] = DLs[k].B[1] + DLs[k].A[1] + DLs[k + 1].C[1]

\* two real entries, detected rows under each, censored rows at the second
C24_Witness ==
    /\ CohnRan
    /\ NumReal >= 2
    /\ DLs[1].A[1] >= 1
    /\ DLs[2].A[1] >= 1
    /\ DLs[2].C[1] >= 2

\* C25: after the recursion PE[k] >= PE[k+1] for every real entry, with
\* equality exactly when A[k] = 0; on the pass-through and fallback paths
\* every PE of the table is still 0.
C25_PEMonotone ==
    /\ OnRegressionPath =>
          \A k \in 1..NumReal :
              /\ RLe(DLs[k + 1].PE, DLs[k].PE)
              /\ (DLs[k].PE = DLs[k + 1].PE <=> DLs[k].A = Float(0))
    /\ (pc = "done" /\ ~OnRegressionPath) =>
          \A k \in DOMAIN DLs : DLs[k].PE = Float(0)

\* a regression run with an entry where PE rises and one where it does not
C25_Witness ==
    /\ OnRegressionPath
    /\ \E k \in 1..NumReal : RLt(DLs[k + 1].PE, DLs[k].PE)
    /\ \E k \in 1..NumReal : DLs[k].PE = DLs[k + 1].PE /\ DLs[k].A = Float(0)

\* a fallback run whose table is not empty
C25_FallbackReached == OnFallbackPath /\ Len(DLs) > 0
====
